---- MODULE Spec2Model ----
(***************************************************************************)
(* A model of the Monitis SDK core (monitis/api.py): credential            *)
(* resolution, request signing, the GET/POST transport, the Monitis        *)
(* facade, and the keyword-argument normaliser (validate_kwargs).          *)
(*                                                                         *)
(* Python values are modelled as follows.  A str is a TLA+ string; its     *)
(* characters, where the code looks at them (sorting, concatenation),      *)
(* are given by Chars.  None is the string "None", which is not in the     *)
(* vocabulary of any argument.  A call's result is a record: either a      *)
(* returned value or a raised exception with its message.                  *)
(***************************************************************************)
EXTENDS Integers, Sequences, FiniteSets, TLC

VARIABLES
    Monitis,    \* the class attributes of Monitis: apikey, secretkey, sandbox
    environ,    \* os.environ restricted to the four MONITIS_* variables
    self,       \* the Monitis instance of the program, if one was constructed
    call,       \* the last SDK call: its inputs, the requests it sent, its outcome
    vk          \* the last validate_kwargs call: its inputs and its outcome

vars == <<Monitis, environ, self, call, vk>>

None == "None"

\* Python truthiness of a str-or-None value: `not x` is true of None and ''.
Truthy(x) == x # None /\ x # ""

Ret(v) == [ok |-> TRUE, val |-> v, exc |-> "", msg |-> <<>>]

\* What a call that raises, or that returns None, gives back.
NoValue == [none |-> TRUE]

Raise(e, m) == [ok |-> FALSE, val |-> NoValue, exc |-> e, msg |-> m]

MonitisError(m) == Raise("MonitisError", m)

-----------------------------------------------------------------------------
(* The endpoint and the environment *)

default_url == "http://monitis.com/api"

sandbox_url == "http://sandbox.monitis.com/api"

EnvNames ==
    {"MONITIS_APIKEY", "MONITIS_SECRETKEY",
     "MONITIS_SANDBOX_APIKEY", "MONITIS_SANDBOX_SECRETKEY"}

\* The value each variable holds when it is set: one distinct key per name.
EnvValue(name) ==
    CASE name = "MONITIS_APIKEY" -> "e_ak"
      [] name = "MONITIS_SECRETKEY" -> "e_sk"
      [] name = "MONITIS_SANDBOX_APIKEY" -> "e_sak"
      [] name = "MONITIS_SANDBOX_SECRETKEY" -> "e_ssk"

_api_url == IF Monitis.sandbox = TRUE THEN sandbox_url ELSE default_url

environ_key(name) == environ[name]

-----------------------------------------------------------------------------
(* Credential resolution outside an instance *)

resolve_apikey ==
    IF Monitis.apikey # None THEN Ret(Monitis.apikey)
    ELSE LET apikey == IF Monitis.sandbox = TRUE
                       THEN environ_key("MONITIS_SANDBOX_APIKEY")
                       ELSE environ_key("MONITIS_APIKEY")
         IN  IF apikey # None THEN Ret(apikey)
             ELSE MonitisError(<<"The Monitis API key is required">>)

resolve_secretkey ==
    IF Monitis.secretkey # None THEN Ret(Monitis.secretkey)
    ELSE LET secretkey == IF Monitis.sandbox = TRUE
                          THEN environ_key("MONITIS_SANDBOX_SECRETKEY")
                          ELSE environ_key("MONITIS_SECRETKEY")
         IN  IF secretkey # None THEN Ret(secretkey)
             ELSE MonitisError(<<"The Monitis secret key is required">>)

-----------------------------------------------------------------------------
(* Dictionaries (kwargs, post_args) and their values *)

\* A dict value that is a Python str.
PyStr(s) == [str |-> s]

Put(d, k, v) == [x \in DOMAIN d \cup {k} |-> IF x = k THEN v ELSE d[x]]

Without(d, k) == [x \in DOMAIN d \ {k} |-> d[x]]

EmptyDict == [x \in {} |-> PyStr("")]

\* The characters (ASCII codes) of the strings the model uses.
Chars(s) ==
    CASE s = "apikey" -> <<97, 112, 105, 107, 101, 121>>
      [] s = "action" -> <<97, 99, 116, 105, 111, 110>>
      [] s = "version" -> <<118, 101, 114, 115, 105, 111, 110>>
      [] s = "timestamp" -> <<116, 105, 109, 101, 115, 116, 97, 109, 112>>
      [] s = "checksum" -> <<99, 104, 101, 99, 107, 115, 117, 109>>
      [] s = "output" -> <<111, 117, 116, 112, 117, 116>>
      [] s = "secretkey" -> <<115, 101, 99, 114, 101, 116, 107, 101, 121>>
      [] s = "tag" -> <<116, 97, 103>>
      [] s = "JSON" -> <<74, 83, 79, 78>>
      [] s = "XML" -> <<88, 77, 76>>
      [] s = "2" -> <<50>>
      [] s = "3" -> <<51>>
      [] s = "" -> <<>>
      [] s = "ck" -> <<99, 107>>
      [] s = "cs" -> <<99, 115>>
      [] s = "xk" -> <<120, 107>>
      [] s = "xs" -> <<120, 115>>
      [] s = "ks" -> <<107, 115>>
      [] s = "ik" -> <<105, 107>>
      [] s = "e_ak" -> <<101, 95, 97, 107>>
      [] s = "e_sak" -> <<101, 95, 115, 97, 107>>
      [] s = "e_sk" -> <<101, 95, 115, 107>>
      [] s = "e_ssk" -> <<101, 95, 115, 115, 107>>
      [] s = "agents" -> <<97, 103, 101, 110, 116, 115>>
      [] s = "web" -> <<119, 101, 98>>
      [] s = "forged" -> <<102, 111, 114, 103, 101, 100>>
      [] s = "2011-10-01 00:00:00" ->
             <<50, 48, 49, 49, 45, 49, 48, 45, 48, 49, 32, 48, 48, 58, 48, 48, 58, 48, 48>>
      [] s = "2011-10-01 00:00:01" ->
             <<50, 48, 49, 49, 45, 49, 48, 45, 48, 49, 32, 48, 48, 58, 48, 48, 58, 48, 49>>
      [] s = "1999-12-31 23:59:59" ->
             <<49, 57, 57, 57, 45, 49, 50, 45, 51, 49, 32, 50, 51, 58, 53, 57, 58, 53, 57>>

\* Python 2 str comparison: bytewise lexicographic order, a proper prefix first.
LexLess(s, t) ==
    \E i \in 1..(Len(s) + 1) :
        /\ \A j \in 1..(i - 1) : j <= Len(t) /\ s[j] = t[j]
        /\ \/ i = Len(s) + 1 /\ Len(t) >= i
           \/ i <= Len(s) /\ i <= Len(t) /\ s[i] < t[i]

MinKey(K) == CHOOSE k \in K : \A o \in K \ {k} : LexLess(Chars(k), Chars(o))

RECURSIVE SortedKeys(_)
SortedKeys(K) ==
    IF K = {} THEN <<>>
    ELSE LET k == MinKey(K) IN <<k>> \o SortedKeys(K \ {k})

\* sorted(kwargs.items()): the keys of a dict are unique, so the order of the
\* (key, value) tuples is the order of the keys.
sorted_items(kwargs) ==
    LET ks == SortedKeys(DOMAIN kwargs)
    IN  [i \in 1..Len(ks) |-> <<ks[i], kwargs[ks[i]]>>]

RECURSIVE JoinItems(_)
JoinItems(items) ==
    IF Len(items) = 0 THEN <<>>
    ELSE Chars(items[1][1]) \o Chars(items[1][2].str) \o JoinItems(Tail(items))

\* ''.join([''.join([str(x), str(y)]) for x, y in sorted(kwargs.items())])
param_string(kwargs) == JoinItems(sorted_items(kwargs))

\* HMAC-SHA1 is not computed: the digest is the pair it is a function of.
new_hmac(key, msg) == [digestmod |-> "sha1", key |-> key, msg |-> msg]

b64encode(digest) == [b64 |-> digest]

-----------------------------------------------------------------------------
(* checksum, the free function *)

checksum(kwargs) ==
    LET default == resolve_secretkey     \* the default of pop() is evaluated first
    IN  IF ~default.ok THEN default
        ELSE LET secretkey == IF "secretkey" \in DOMAIN kwargs
                              THEN kwargs["secretkey"].str
                              ELSE default.val
                 rest == Without(kwargs, "secretkey")
             IN  Ret(b64encode(new_hmac(secretkey, param_string(rest))))

-----------------------------------------------------------------------------
(* The transport: urllib2.urlopen and json.loads, seen from the SDK *)

\* What the network does with one request: no answer at all, or an HTTP response.
NoAnswer == [arrived |-> FALSE, status |-> 0, body |-> ""]

HttpResponse(status, body) == [arrived |-> TRUE, status |-> status, body |-> body]

\* urlopen returns the response on a 2xx status, raises HTTPError (whose read()
\* is the body) on any other status, and URLError when no response arrives.
urlopen(resp) ==
    IF ~resp.arrived THEN Raise("URLError", <<"connection failed">>)
    ELSE IF resp.status \in 200..299 THEN Ret(resp)
    ELSE Raise("HTTPError", <<resp.body>>)

\* json.loads on the bodies the model uses.
loads(json) ==
    CASE json = "{}" -> Ret([json |-> "object", items |-> <<>>])
      [] json = "[1, 2]" -> Ret([json |-> "array", items |-> <<1, 2>>])
      [] OTHER -> Raise("ValueError", <<"No JSON object could be decoded">>)

decode_json(json) ==
    LET r == loads(json)
    IN  IF r.ok THEN r
        ELSE MonitisError(<<"JSON parse error", ": ", r.msg[1]>>)

\* urlencode of a list of pairs or of a dict: the (key, value) pairs on the wire.
urlencode_items(d) == {<<k, d[k]>> : k \in DOMAIN d}

Request(method, url, params) == [method |-> method, url |-> url, params |-> params]

\* The result of a call: the requests it sent, in order, and how it ended.
Done(sent, out) == [sent |-> sent, out |-> out]

timestamp(utcnow) == utcnow

-----------------------------------------------------------------------------
(* get and post, the free functions *)

\* api.py 244-255: the part of get after the request is built.
get_receive(resp, _raw) ==
    LET res == urlopen(resp)
    IN  IF ~res.ok
        THEN IF res.exc = "HTTPError"
             THEN MonitisError(<<"API Error: ", res.msg[1]>>)
             ELSE res
        ELSE IF _raw THEN res
        ELSE decode_json(res.val.body)

\* A slip: the action is checked only after the request has gone out.
get_checks_action_late(apikey_, action, version, _url, _raw, kwargs, resp) ==
    LET url == IF Truthy(_url) THEN _url ELSE _api_url
        apikey == IF Truthy(apikey_) THEN Ret(apikey_) ELSE resolve_apikey
    IN  IF ~apikey.ok THEN Done(<<>>, apikey)
        ELSE IF ~Truthy(apikey.val)
        THEN Done(<<>>, MonitisError(<<"get: apikey is required">>))
        ELSE LET req_params ==
                     {<<"apikey", PyStr(apikey.val)>>, <<"action", PyStr(action)>>,
                      <<"output", PyStr("JSON")>>, <<"version", PyStr(version)>>}
                         \cup urlencode_items(kwargs)
                 sent == <<Request("GET", url, req_params)>>
             IN  IF ~Truthy(action)
                 THEN Done(sent, MonitisError(<<"get: action is required">>))
                 ELSE Done(sent, get_receive(resp, _raw))

get(apikey_, action, version, _url, _raw, kwargs, resp) ==
    LET url == IF Truthy(_url) THEN _url ELSE _api_url
        output == "JSON"
        apikey == IF Truthy(apikey_) THEN Ret(apikey_) ELSE resolve_apikey
    IN  IF ~apikey.ok THEN Done(<<>>, apikey)
        ELSE IF ~Truthy(apikey.val)
        THEN Done(<<>>, MonitisError(<<"get: apikey is required">>))
        ELSE IF ~Truthy(action)
        THEN Done(<<>>, MonitisError(<<"get: action is required">>))
        ELSE LET req_params ==
                     {<<"apikey", PyStr(apikey.val)>>, <<"action", PyStr(action)>>,
                      <<"output", PyStr(output)>>, <<"version", PyStr(version)>>}
                         \cup urlencode_items(kwargs)
             IN  Done(<<Request("GET", url, req_params)>>, get_receive(resp, _raw))

\* A slip: the raw flag is ignored and a 2xx body is always decoded.
post_receive_ignores_raw(resp, _raw) ==
    LET result == urlopen(resp)
    IN  IF ~result.ok
        THEN IF result.exc = "HTTPError"
             THEN MonitisError(<<"API Error: ", result.msg[1]>>)
             ELSE result
        ELSE decode_json(result.val.body)

\* api.py 289-302: the part of post after the request is built.
post_receive(resp, _raw) ==
    LET result == urlopen(resp)
    IN  IF ~result.ok
        THEN IF result.exc = "HTTPError"
             THEN MonitisError(<<"API Error: ", result.msg[1]>>)
             ELSE result
        ELSE IF _raw THEN result
        ELSE decode_json(result.val.body)

post(apikey_, secretkey_, action, version, _url, _raw, kwargs, utcnow, resp) ==
    LET apikey == IF Truthy(apikey_) THEN Ret(apikey_) ELSE resolve_apikey
        secretkey == IF Truthy(secretkey_) THEN Ret(secretkey_) ELSE resolve_secretkey
        url == IF Truthy(_url) THEN _url ELSE _api_url
    IN  IF ~apikey.ok THEN Done(<<>>, apikey)
        ELSE IF ~secretkey.ok THEN Done(<<>>, secretkey)
        ELSE IF ~Truthy(action)
        THEN Done(<<>>, MonitisError(<<"post: action is required">>))
        ELSE LET a1 == Put(kwargs, "apikey", PyStr(apikey.val))
                 a2 == Put(a1, "action", PyStr(action))
                 a3 == Put(a2, "version", PyStr(version))
                 post_args == Put(a3, "timestamp", PyStr(timestamp(utcnow)))
                 post_checksum ==
                     checksum(Put(post_args, "secretkey", PyStr(secretkey.val)))
             IN  IF ~post_checksum.ok THEN Done(<<>>, post_checksum)
                 ELSE LET post_params ==
                              urlencode_items(Put(post_args, "checksum", post_checksum.val))
                      IN  Done(<<Request("POST", url, post_params)>>,
                               post_receive(resp, _raw))

-----------------------------------------------------------------------------
(* The Monitis class: an instance is the record self *)

NoInstance ==
    [live |-> FALSE, apikey |-> None, secretkey |-> None, url |-> None, version |-> None]

\* Monitis.resolve_apikey(self); self_apikey is what the lookup of self.apikey
\* finds: the instance attribute, or the class attribute while __init__ runs.
Monitis_resolve_apikey(self_apikey) ==
    IF self_apikey # None THEN Ret(self_apikey)
    ELSE LET apikey == resolve_apikey
         IN  IF ~apikey.ok THEN apikey
             ELSE IF apikey.val # None THEN apikey
             ELSE MonitisError(<<"The Monitis API key is required">>)

Monitis_resolve_secretkey(self_secretkey) ==
    IF self_secretkey # None THEN Ret(self_secretkey)
    ELSE LET secretkey == resolve_secretkey
         IN  IF ~secretkey.ok THEN secretkey
             ELSE IF secretkey.val # None THEN secretkey
             ELSE MonitisError(<<"The Monitis secret key is required">>)

\* Monitis.__init__: the new instance, or the exception that leaves none.
Monitis_init(apikey_, secretkey_, _url, version_) ==
    LET url == IF Truthy(_url) THEN _url ELSE _api_url
        apikey == IF Truthy(apikey_) THEN Ret(apikey_)
                  ELSE Monitis_resolve_apikey(Monitis.apikey)
        secretkey == IF Truthy(secretkey_) THEN Ret(secretkey_)
                     ELSE Monitis_resolve_secretkey(Monitis.secretkey)
    IN  IF ~apikey.ok THEN apikey
        ELSE IF ~secretkey.ok THEN secretkey
        ELSE Ret([live |-> TRUE, apikey |-> apikey.val, secretkey |-> secretkey.val,
                  url |-> url,
                  version |-> IF Truthy(version_) THEN version_ ELSE "2"])

Monitis_checksum(kwargs) ==
    LET secretkey == IF "secretkey" \in DOMAIN kwargs
                     THEN Ret(kwargs["secretkey"].str)
                     ELSE IF Truthy(self.secretkey) THEN Ret(self.secretkey)
                     ELSE resolve_secretkey
        args == sorted_items(Without(kwargs, "secretkey"))
    IN  IF ~secretkey.ok THEN secretkey
        ELSE Ret(b64encode(new_hmac(secretkey.val, JoinItems(args))))

\* api.py 393-404: the part of Monitis.post after the request is built.
Monitis_post_receive(resp) ==
    LET result == urlopen(resp)
    IN  IF ~result.ok
        THEN IF result.exc = "HTTPError"
             THEN MonitisError(<<"API Error: ", result.msg[1]>>)
             ELSE result
        ELSE Ret(PyStr(result.val.body))

Monitis_post(kwargs, utcnow, resp) ==
    LET a1 == Put(kwargs, "apikey", PyStr(self.apikey))
        a2 == Put(a1, "version", PyStr(self.version))
        post_args == Put(a2, "timestamp", PyStr(timestamp(utcnow)))
        post_checksum == Monitis_checksum(post_args)
    IN  IF ~post_checksum.ok THEN Done(<<>>, post_checksum)
        ELSE LET params == urlencode_items(Put(post_args, "checksum", post_checksum.val))
             IN  Done(<<Request("POST", self.url, params)>>, Monitis_post_receive(resp))

-----------------------------------------------------------------------------
(* camel2under and validate_kwargs.  Here a name is the sequence of its        *)
(* characters (ASCII codes), a dict maps names to values.                      *)

islower(c) == c \in 97..122

isupper(c) == c \in 65..90

RECURSIVE lower(_)
lower(s) ==
    IF Len(s) = 0 THEN <<>>
    ELSE <<IF isupper(s[1]) THEN s[1] + 32 ELSE s[1]>> \o lower(Tail(s))

\* The loop of camel2under over i = 0 .. len(word)-2 (here from i to Len(word)-1).
RECURSIVE camel_loop(_, _)
camel_loop(word, i) ==
    IF i > Len(word) - 1 THEN <<>>
    ELSE <<word[i]>>
         \o (IF islower(word[i]) /\ isupper(word[i + 1]) THEN <<95>> ELSE <<>>)
         \o camel_loop(word, i + 1)

\* word is not empty: word[-1] raises IndexError on ''.
camel2under(word) == lower(camel_loop(word, 1) \o <<word[Len(word)]>>)

\* temp[camel2under(word)] = word for each word of the list, in order.
RECURSIVE list_to_dict_from(_, _)
list_to_dict_from(temp, words) ==
    IF Len(words) = 0 THEN temp
    ELSE list_to_dict_from(Put(temp, camel2under(words[1]), words[1]), Tail(words))

list_to_dict(words) == list_to_dict_from([lc \in {} |-> <<>>], words)

\* kwargs.pop(key, None): the value and the dict that remains.
pop(kwargs, key) ==
    IF key \in DOMAIN kwargs
    THEN [value |-> kwargs[key], kwargs |-> Without(kwargs, key)]
    ELSE [value |-> None, kwargs |-> kwargs]

\* A slip: only the underscore spelling is looked up.
pop_lc_only(kwargs, lc, cc) == pop(kwargs, lc)

\* One name of a loop of validate_kwargs: pop lc, then cc if lc gave nothing.
pop_either(kwargs, lc, cc) ==
    LET first == pop(kwargs, lc)
    IN  IF first.value # None THEN first ELSE pop(first.kwargs, cc)

\* for lc, cc in required.items(), in the order items() yields.
RECURSIVE required_loop(_, _, _, _)
required_loop(required, order, kwargs, result_kwargs) ==
    IF Len(order) = 0
    THEN [ok |-> TRUE, kwargs |-> kwargs, result_kwargs |-> result_kwargs, msg |-> <<>>]
    ELSE LET lc == order[1]
             cc == required[lc]
             got == pop_either(kwargs, lc, cc)
         IN  IF got.value = None
             THEN [ok |-> FALSE, kwargs |-> got.kwargs, result_kwargs |-> result_kwargs,
                   msg |-> <<lc, " is required">>]
             ELSE required_loop(required, Tail(order), got.kwargs,
                                Put(result_kwargs, cc, got.value))

RECURSIVE optional_loop(_, _, _, _)
optional_loop(optional, order, kwargs, result_kwargs) ==
    IF Len(order) = 0
    THEN [kwargs |-> kwargs, result_kwargs |-> result_kwargs]
    ELSE LET lc == order[1]
             cc == optional[lc]
             got == pop_either(kwargs, lc, cc)
         IN  optional_loop(optional, Tail(order), got.kwargs,
                           IF got.value # None
                           THEN Put(result_kwargs, cc, got.value)
                           ELSE result_kwargs)

\* result_kwargs.update(kwargs)
update(d, kwargs) ==
    [k \in DOMAIN d \cup DOMAIN kwargs |-> IF k \in DOMAIN kwargs THEN kwargs[k] ELSE d[k]]

NoDict == [k \in {} |-> ""]

\* validate_kwargs with required and optional given as lists; req_order and
\* opt_order are the orders in which items() yields the two dicts.
validate_kwargs(required_, optional_, kwargs, req_order, opt_order) ==
    LET required == list_to_dict(required_)
        optional == list_to_dict(optional_)
        r == required_loop(required, req_order, kwargs, NoDict)
    IN  IF ~r.ok THEN MonitisError(r.msg)
        ELSE LET o == optional_loop(optional, opt_order, r.kwargs, r.result_kwargs)
             IN  Ret(update(o.result_kwargs, o.kwargs))

-----------------------------------------------------------------------------
(* The inputs of the calls *)

\* The most keyword arguments a caller passes beyond the named ones.
MaxKwargs == 2

ArgApikeys == {None, "", "xk"}

ArgSecretkeys == {None, "", "xs"}

ArgActions == {None, "agents"}

UtcNows == {"2011-10-01 00:00:00", "2011-10-01 00:00:01"}

OkResponse == HttpResponse(200, "{}")

Responses ==
    {OkResponse, HttpResponse(200, "<html>"), HttpResponse(404, "not found"),
     HttpResponse(500, "[1, 2]"), NoAnswer}

\* The value a caller passes under each extra keyword.
KwValue(k) ==
    CASE k = "output" -> PyStr("XML")
      [] k = "tag" -> PyStr("web")
      [] k = "checksum" -> PyStr("forged")
      [] k = "timestamp" -> PyStr("1999-12-31 23:59:59")
      [] k = "action" -> PyStr("agents")
      [] k = "secretkey" -> PyStr("ks")

\* The keyword lists a caller can write: distinct keywords, in any order.
ArgSeqs(keys) ==
    UNION {{q \in [1..n -> keys] : \A i, j \in 1..n : i # j => q[i] # q[j]} :
           n \in 0..MaxKwargs}

\* **kwargs: the dict of a keyword list.
DictOf(argseq) ==
    [k \in {argseq[i] : i \in 1..Len(argseq)} |-> KwValue(k)]

Kwargs(keys) ==
    {[k \in S |-> KwValue(k)] : S \in {T \in SUBSET keys : Cardinality(T) <= MaxKwargs}}

GetKwKeys == {"output", "tag"}

PostKwKeys == {"output", "tag", "checksum", "timestamp"}

MethodKwKeys == {"action", "output", "tag", "checksum", "secretkey"}

ChecksumKwKeys == {"action", "tag", "output", "secretkey"}

NoCall ==
    [op |-> "none", apikey |-> None, secretkey |-> None, action |-> None,
     raw |-> FALSE, kwargs |-> EmptyDict, argseq |-> <<>>, utcnow |-> None,
     resp |-> NoAnswer, sent |-> <<>>, out |-> Ret(NoValue)]

NoVk == [op |-> "none"]

Environs(names) ==
    {[n \in EnvNames |-> IF n \in S THEN EnvValue(n) ELSE None] : S \in SUBSET names}

-----------------------------------------------------------------------------
(* The program: one call at a time, class attributes assigned between calls *)

InitWith(envs) ==
    /\ Monitis = [apikey |-> None, secretkey |-> None, sandbox |-> FALSE]
    /\ environ \in envs
    /\ self = NoInstance
    /\ call = NoCall
    /\ vk = NoVk

\* The program assigns a class attribute: Monitis.apikey = v, and so on.
SetApikeyTo(values) ==
    /\ call.op = "none"
    /\ \E v \in values : Monitis' = [Monitis EXCEPT !.apikey = v]
    /\ UNCHANGED <<environ, self, call, vk>>

SetSecretkeyTo(values) ==
    /\ call.op = "none"
    /\ \E v \in values : Monitis' = [Monitis EXCEPT !.secretkey = v]
    /\ UNCHANGED <<environ, self, call, vk>>

SetSandbox ==
    /\ call.op = "none"
    /\ \E v \in BOOLEAN : Monitis' = [Monitis EXCEPT !.sandbox = v]
    /\ UNCHANGED <<environ, self, call, vk>>

GetWith(apikeys, actions, raws, kwargss, resps) ==
    /\ call.op = "none"
    /\ \E apikey \in apikeys, action \in actions, raw \in raws,
          kwargs \in kwargss, resp \in resps :
          LET r == get(apikey, action, "2", None, raw, kwargs, resp)
          IN  call' = [NoCall EXCEPT !.op = "get", !.apikey = apikey,
                          !.action = action, !.raw = raw, !.kwargs = kwargs,
                          !.resp = resp, !.sent = r.sent, !.out = r.out]
    /\ UNCHANGED <<Monitis, environ, self, vk>>

PostWith(apikeys, secretkeys, actions, raws, kwargss, utcnows, resps) ==
    /\ call.op = "none"
    /\ \E apikey \in apikeys, secretkey \in secretkeys, action \in actions,
          raw \in raws, kwargs \in kwargss, utcnow \in utcnows, resp \in resps :
          LET r == post(apikey, secretkey, action, "2", None, raw, kwargs, utcnow, resp)
          IN  call' = [NoCall EXCEPT !.op = "post", !.apikey = apikey,
                          !.secretkey = secretkey, !.action = action, !.raw = raw,
                          !.kwargs = kwargs, !.utcnow = utcnow, !.resp = resp,
                          !.sent = r.sent, !.out = r.out]
    /\ UNCHANGED <<Monitis, environ, self, vk>>

ChecksumWith(argseqs) ==
    /\ call.op = "none"
    /\ \E argseq \in argseqs :
          call' = [NoCall EXCEPT !.op = "checksum", !.argseq = argseq,
                      !.kwargs = DictOf(argseq), !.out = checksum(DictOf(argseq))]
    /\ UNCHANGED <<Monitis, environ, self, vk>>

NewWith(apikeys, secretkeys) ==
    /\ call.op = "none"
    /\ \E apikey \in apikeys, secretkey \in secretkeys :
          LET r == Monitis_init(apikey, secretkey, None, None)
          IN  /\ self' = IF r.ok THEN r.val ELSE self
              /\ call' = [NoCall EXCEPT !.op = "Monitis", !.apikey = apikey,
                             !.secretkey = secretkey,
                             !.out = IF r.ok THEN Ret(NoValue) ELSE r]
    /\ UNCHANGED <<Monitis, environ, vk>>

MonitisPostWith(kwargss, utcnows, resps) ==
    /\ call.op = "none"
    /\ self.live
    /\ \E kwargs \in kwargss, utcnow \in utcnows, resp \in resps :
          LET r == Monitis_post(kwargs, utcnow, resp)
          IN  call' = [NoCall EXCEPT !.op = "Monitis.post", !.kwargs = kwargs,
                          !.utcnow = utcnow, !.resp = resp,
                          !.sent = r.sent, !.out = r.out]
    /\ UNCHANGED <<Monitis, environ, self, vk>>

MonitisChecksumWith(argseqs) ==
    /\ call.op = "none"
    /\ self.live
    /\ \E argseq \in argseqs :
          call' = [NoCall EXCEPT !.op = "Monitis.checksum", !.argseq = argseq,
                      !.kwargs = DictOf(argseq),
                      !.out = Monitis_checksum(DictOf(argseq))]
    /\ UNCHANGED <<Monitis, environ, self, vk>>

\* The call is over: its caller has the result and goes on.
Return ==
    /\ call.op # "none"
    /\ call' = NoCall
    /\ UNCHANGED <<Monitis, environ, self, vk>>

-----------------------------------------------------------------------------
(* Spec: requests.  The environment is empty, the class attributes vary. *)

Init == InitWith(Environs({}))

SetApikey == SetApikeyTo({None, "", "ck"})

SetSecretkey == SetSecretkeyTo({None, "cs"})

Get == GetWith({None, "xk"}, ArgActions, BOOLEAN, Kwargs(GetKwKeys), Responses)

Post ==
    PostWith({None, "xk"}, {None, "xs"}, ArgActions, BOOLEAN, Kwargs(PostKwKeys),
             UtcNows, Responses)

Checksum == ChecksumWith(ArgSeqs(ChecksumKwKeys))

New == NewWith({None, "xk"}, {None, "xs"})

MonitisPost == MonitisPostWith(Kwargs(MethodKwKeys), UtcNows, Responses)

MonitisChecksum == MonitisChecksumWith(ArgSeqs(ChecksumKwKeys))

Next ==
    \/ SetApikey
    \/ SetSecretkey
    \/ SetSandbox
    \/ Get
    \/ Post
    \/ Checksum
    \/ New
    \/ MonitisPost
    \/ MonitisChecksum
    \/ Return

Spec == Init /\ [][Next]_vars

-----------------------------------------------------------------------------
(* SpecCred: credentials.  Every level of the chain varies, the requests are plain. *)

InitCred == InitWith(Environs(EnvNames))

CredSetApikey == SetApikeyTo({None, "", "ck"})

CredSetSecretkey == SetSecretkeyTo({None, "", "cs"})

CredGet == GetWith(ArgApikeys, {"agents"}, {FALSE}, {EmptyDict}, {OkResponse})

CredPost ==
    PostWith(ArgApikeys, ArgSecretkeys, {"agents"}, {FALSE}, {EmptyDict},
             {"2011-10-01 00:00:00"}, {OkResponse})

CredChecksum == ChecksumWith({<<>>, <<"secretkey">>})

CredNew == NewWith(ArgApikeys, ArgSecretkeys)

CredMonitisPost == MonitisPostWith({EmptyDict}, {"2011-10-01 00:00:00"}, {OkResponse})

CredMonitisChecksum == MonitisChecksumWith({<<>>, <<"secretkey">>})

NextCred ==
    \/ CredSetApikey
    \/ CredSetSecretkey
    \/ SetSandbox
    \/ CredGet
    \/ CredPost
    \/ CredChecksum
    \/ CredNew
    \/ CredMonitisPost
    \/ CredMonitisChecksum
    \/ Return

SpecCred == InitCred /\ [][NextCred]_vars

-----------------------------------------------------------------------------
(* What a call put on the wire *)

ParamKeys(req) == {p[1] : p \in req.params}

ParamValues(req, k) == {p[2] : p \in {q \in req.params : q[1] = k}}

\* The parameters of a request as a dict, when no key is carried twice.
ParamDict(req) == [k \in ParamKeys(req) |-> CHOOSE v \in ParamValues(req, k) : TRUE]

Sent == {call.sent[i] : i \in 1..Len(call.sent)}

ValidationMessages ==
    {<<"The Monitis API key is required">>, <<"The Monitis secret key is required">>,
     <<"get: apikey is required">>, <<"get: action is required">>,
     <<"post: action is required">>}

FailsValidation(out) ==
    ~out.ok /\ out.exc = "MonitisError" /\ out.msg \in ValidationMessages

-----------------------------------------------------------------------------
(* C8: validation before the network, one request, no retry *)

\* C8: a call to get or post sends no request when it fails validation (missing
\* API key, secret key or action) and exactly one request otherwise.
C8_RequestCount ==
    call.op \in {"get", "post"} =>
        Len(call.sent) = IF FailsValidation(call.out) THEN 0 ELSE 1

C8_Witness ==
    /\ call.op = "get"
    /\ call.apikey = "xk"
    /\ call.action = None
    /\ call.out = MonitisError(<<"get: action is required">>)
    /\ call.sent = <<>>

-----------------------------------------------------------------------------
(* C9: the outcome of get and post once the response is in *)

ValidJson == {"{}", "[1, 2]"}

Contains(msg, text) == \E i \in 1..Len(msg) : msg[i] = text

\* C9: after the request of get or post is answered, a non-2xx status raises
\* MonitisError with the server's body, raw or not; a 2xx answer in raw mode
\* returns the response itself; a 2xx answer with a body that is not JSON raises
\* MonitisError with the parser's message; otherwise the decoded value is returned.
C9_Outcome ==
    (call.op \in {"get", "post"} /\ Len(call.sent) = 1 /\ call.resp.arrived) =>
        IF call.resp.status \notin 200..299
        THEN /\ ~call.out.ok
             /\ call.out.exc = "MonitisError"
             /\ Contains(call.out.msg, call.resp.body)
        ELSE IF call.raw
        THEN call.out = Ret(call.resp)
        ELSE IF call.resp.body \notin ValidJson
        THEN /\ ~call.out.ok
             /\ call.out.exc = "MonitisError"
             /\ Contains(call.out.msg, "No JSON object could be decoded")
        ELSE call.out.ok /\ call.out.val = loads(call.resp.body).val

C9_Witness ==
    /\ call.op = "post"
    /\ Len(call.sent) = 1
    /\ ~call.raw
    /\ call.resp = HttpResponse(200, "<html>")
    /\ call.out =
           MonitisError(<<"JSON parse error", ": ", "No JSON object could be decoded">>)

-----------------------------------------------------------------------------
(* C3, C6, C10: what every request carries *)

\* The secret key the call signs with: the explicit one, else the instance's,
\* else the class attribute (the environment of Spec is empty).
ResolvedSecretkey ==
    IF call.op = "post"
    THEN IF Truthy(call.secretkey) THEN call.secretkey ELSE Monitis.secretkey
    ELSE IF Truthy(self.secretkey) THEN self.secretkey ELSE Monitis.secretkey

\* C3: every POST request of post and of Monitis.post carries apikey, action,
\* version, timestamp and checksum, and the checksum is the signature of the
\* other transmitted parameters under the resolved secret key.
C3_PostParameters ==
    call.op \in {"post", "Monitis.post"} =>
        \A r \in Sent :
            /\ {"apikey", "action", "version", "timestamp", "checksum"} \subseteq ParamKeys(r)
            /\ ParamValues(r, "checksum") =
                   {b64encode(new_hmac(ResolvedSecretkey,
                                       param_string(Without(ParamDict(r), "checksum"))))}

\* C6: every request of get, post and Monitis.post carries output with the
\* single value JSON.
C6_OutputJson ==
    call.op \in {"get", "post", "Monitis.post"} =>
        \A r \in Sent : ParamValues(r, "output") = {PyStr("JSON")}

\* C10: no request of post or Monitis.post carries a secretkey parameter.
C10_NoSecretOnWire ==
    call.op \in {"post", "Monitis.post"} =>
        \A r \in Sent : "secretkey" \notin ParamKeys(r)

-----------------------------------------------------------------------------
(* C7: Monitis.post against post *)

\* C7: Monitis.post sends the same request and ends the same way as post called
\* with the instance's api key, secret key, version and endpoint and the same
\* keyword arguments.
C7_SameAsPost ==
    (call.op = "Monitis.post" /\ "secretkey" \notin DOMAIN call.kwargs) =>
        LET action == IF "action" \in DOMAIN call.kwargs
                      THEN call.kwargs["action"].str ELSE None
            free == post(self.apikey, self.secretkey, action, self.version, self.url,
                         FALSE, Without(call.kwargs, "action"), call.utcnow, call.resp)
        IN  call.sent = free.sent /\ call.out = free.out

-----------------------------------------------------------------------------
(* C5: the string that is signed *)

RECURSIVE JoinKeys(_)
JoinKeys(q) ==
    IF Len(q) = 0 THEN <<>>
    ELSE Chars(q[1]) \o Chars(KwValue(q[1]).str) \o JoinKeys(Tail(q))

\* The supplied keywords other than secretkey, in ascending order.
AscendingArgs(argseq) ==
    LET keys == {argseq[i] : i \in 1..Len(argseq)} \ {"secretkey"}
    IN  {q \in [1..Cardinality(keys) -> keys] :
            \A i, j \in 1..Cardinality(keys) :
                i < j => LexLess(Chars(q[i]), Chars(q[j]))}

\* The key checksum signs with: the secretkey keyword, else the instance's
\* secret key (for the method), else the class attribute; None if there is none.
ChecksumKey ==
    IF "secretkey" \in DOMAIN call.kwargs THEN call.kwargs["secretkey"].str
    ELSE IF call.op = "Monitis.checksum" /\ Truthy(self.secretkey) THEN self.secretkey
    ELSE Monitis.secretkey

\* C5: checksum and Monitis.checksum sign, with the secret key, the string made of
\* each key followed by its value in ascending key order, secretkey left out,
\* whatever the order of the keywords; and the method gives what the function
\* gives for the same parameters and secret key.
C5_SignedString ==
    /\ call.op \in {"checksum", "Monitis.checksum"} =>
           IF ChecksumKey = None THEN ~call.out.ok
           ELSE /\ call.out.ok
                /\ \E q \in AscendingArgs(call.argseq) :
                       call.out.val = b64encode(new_hmac(ChecksumKey, JoinKeys(q)))
    /\ (call.op = "Monitis.checksum" /\ "secretkey" \in DOMAIN call.kwargs) =>
           call.out = checksum(call.kwargs)

-----------------------------------------------------------------------------
(* SpecVK: validate_kwargs on lists of provider-format names *)

\* The longest required list and the longest optional list.
MaxNames == 2

\* The most keyword arguments passed to validate_kwargs.
MaxVkKwargs == 2

agentId == <<97, 103, 101, 110, 116, 73, 100>>

agentID == <<97, 103, 101, 110, 116, 73, 68>>

agent_id == <<97, 103, 101, 110, 116, 95, 105, 100>>

tag == <<116, 97, 103>>

limit == <<108, 105, 109, 105, 116>>

ProviderNames == {agentId, agentID, tag}

CallerKeys == ProviderNames \cup {agent_id, limit}

CallerValues == {"5", "6"}

\* The lists of distinct names of length at most n.
NameLists(n) ==
    UNION {{q \in [1..m -> ProviderNames] : \A i, j \in 1..m : i # j => q[i] # q[j]} :
           m \in 0..n}

VkKwargs ==
    UNION {[S -> CallerValues] : S \in {T \in SUBSET CallerKeys : Cardinality(T) <= MaxVkKwargs}}

\* The orders in which items() can yield a dict: Python 2 fixes none.
Orders(d) ==
    {q \in [1..Cardinality(DOMAIN d) -> DOMAIN d] :
        \A i, j \in 1..Cardinality(DOMAIN d) : i # j => q[i] # q[j]}

InitVK ==
    /\ Monitis = [apikey |-> None, secretkey |-> None, sandbox |-> FALSE]
    /\ environ \in Environs({})
    /\ self = NoInstance
    /\ call = NoCall
    /\ \E required \in NameLists(MaxNames), optional \in NameLists(MaxNames),
          kwargs \in VkKwargs :
          vk = [op |-> "called", required |-> required, optional |-> optional,
                kwargs |-> kwargs, out |-> Ret(NoDict)]

ValidateKwargs ==
    /\ vk.op = "called"
    /\ \E req_order \in Orders(list_to_dict(vk.required)),
          opt_order \in Orders(list_to_dict(vk.optional)) :
          vk' = [vk EXCEPT !.op = "returned",
                    !.out = validate_kwargs(vk.required, vk.optional, vk.kwargs,
                                            req_order, opt_order)]
    /\ UNCHANGED <<Monitis, environ, self, call>>

NextVK == ValidateKwargs

SpecVK == InitVK /\ [][NextVK]_vars

-----------------------------------------------------------------------------
(* C4: the contract of validate_kwargs *)

\* The underscore spelling of each provider-format name, written out.
Underscore(w) ==
    CASE w = agentId -> agent_id
      [] w = agentID -> agent_id
      [] w = tag -> tag

Names(list) == {list[i] : i \in 1..Len(list)}

Supplied(kwargs, w) == w \in DOMAIN kwargs \/ Underscore(w) \in DOMAIN kwargs

SuppliedValues(kwargs, w) == {kwargs[k] : k \in {w, Underscore(w)} \cap DOMAIN kwargs}

Spellings(names) == names \cup {Underscore(w) : w \in names}

VkContract ==
    LET req == Names(vk.required)
        opt == Names(vk.optional)
        kw == vk.kwargs
    IN  IF \A w \in req : Supplied(kw, w)
        THEN /\ vk.out.ok
             /\ \A w \in req :
                    w \in DOMAIN vk.out.val /\ vk.out.val[w] \in SuppliedValues(kw, w)
             /\ \A w \in opt :
                    Supplied(kw, w) =>
                        w \in DOMAIN vk.out.val /\ vk.out.val[w] \in SuppliedValues(kw, w)
             /\ \A k \in DOMAIN kw \ Spellings(req \cup opt) :
                    k \in DOMAIN vk.out.val /\ vk.out.val[k] = kw[k]
        ELSE /\ ~vk.out.ok
             /\ vk.out.exc = "MonitisError"
             /\ \E w \in req :
                    ~Supplied(kw, w) /\ vk.out.msg = <<Underscore(w), " is required">>

DistinctSpellings(names) ==
    \A w1, w2 \in names : w1 # w2 => Underscore(w1) # Underscore(w2)

\* C4 as stated: for any lists of provider-format names, validate_kwargs returns
\* every required name, every supplied optional name and every other argument,
\* or raises MonitisError naming the underscore spelling of a missing required name.
C4_AnyNames == vk.op = "returned" => VkContract

\* C4, amended: the same, for lists in which no two names share an underscore
\* spelling.
C4_ValidateKwargs ==
    (vk.op = "returned" /\ DistinctSpellings(Names(vk.required) \cup Names(vk.optional)))
        => VkContract

\* The example of the specification: required agentId, optional tag, agent_id="5".
C4_Witness ==
    /\ vk.op = "returned"
    /\ vk.required = <<agentId>>
    /\ vk.optional = <<tag>>
    /\ vk.kwargs = [k \in {agent_id} |-> "5"]
    /\ vk.out = Ret([k \in {agentId} |-> "5"])

-----------------------------------------------------------------------------
(* C1, C2: the priority chain of the credentials *)

\* The first non-empty value of a chain, None if there is none.
FirstNonEmpty(chain) ==
    IF \E i \in 1..Len(chain) : Truthy(chain[i])
    THEN chain[CHOOSE i \in 1..Len(chain) :
                   Truthy(chain[i]) /\ \A j \in 1..(i - 1) : ~Truthy(chain[j])]
    ELSE None

EnvApikey ==
    environ[IF Monitis.sandbox THEN "MONITIS_SANDBOX_APIKEY" ELSE "MONITIS_APIKEY"]

EnvSecretkey ==
    environ[IF Monitis.sandbox THEN "MONITIS_SANDBOX_SECRETKEY" ELSE "MONITIS_SECRETKEY"]

KwSecretkey ==
    IF "secretkey" \in DOMAIN call.kwargs THEN call.kwargs["secretkey"].str ELSE None

SigningKeys(r) == {v.b64.key : v \in ParamValues(r, "checksum")}

\* The credentials the last call used, each with the chain it had to come from:
\* the explicit argument, the instance attribute, the class attribute, the
\* environment variable of the current mode.
ApikeyUses ==
    IF call.op \in {"get", "post"}
    THEN {<<v.str, <<call.apikey, Monitis.apikey, EnvApikey>>>> :
             v \in UNION {ParamValues(r, "apikey") : r \in Sent}}
    ELSE IF call.op = "Monitis.post"
    THEN {<<v.str, <<self.apikey, Monitis.apikey, EnvApikey>>>> :
             v \in UNION {ParamValues(r, "apikey") : r \in Sent}}
    ELSE IF call.op = "Monitis" /\ call.out.ok
    THEN {<<self.apikey, <<call.apikey, Monitis.apikey, EnvApikey>>>>}
    ELSE {}

SecretkeyUses ==
    IF call.op = "post"
    THEN {<<k, <<call.secretkey, Monitis.secretkey, EnvSecretkey>>>> :
             k \in UNION {SigningKeys(r) : r \in Sent}}
    ELSE IF call.op = "Monitis.post"
    THEN {<<k, <<self.secretkey, Monitis.secretkey, EnvSecretkey>>>> :
             k \in UNION {SigningKeys(r) : r \in Sent}}
    ELSE IF call.op = "checksum" /\ call.out.ok
    THEN {<<call.out.val.b64.key, <<KwSecretkey, Monitis.secretkey, EnvSecretkey>>>>}
    ELSE IF call.op = "Monitis.checksum" /\ call.out.ok
    THEN {<<call.out.val.b64.key,
            <<KwSecretkey, self.secretkey, Monitis.secretkey, EnvSecretkey>>>>}
    ELSE IF call.op = "Monitis" /\ call.out.ok
    THEN {<<self.secretkey, <<call.secretkey, Monitis.secretkey, EnvSecretkey>>>>}
    ELSE {}

\* C1: the API key and the secret key a call uses are each the first non-empty
\* value among the explicit argument, the instance attribute, the class
\* attribute and the environment variable of the current mode: an empty value
\* higher up never hides a non-empty one lower down.
C1_FirstNonEmptyWins ==
    \A u \in ApikeyUses \cup SecretkeyUses :
        FirstNonEmpty(u[2]) # None => u[1] = FirstNonEmpty(u[2])

MissingSecretkey == MonitisError(<<"The Monitis secret key is required">>)

\* C2: post and checksum, given an explicit secret key, never raise the
\* missing-secret-key error.
C2_ExplicitSecretSuffices ==
    /\ (call.op = "post" /\ Truthy(call.secretkey)) => call.out # MissingSecretkey
    /\ (call.op = "checksum" /\ Truthy(KwSecretkey)) => call.out # MissingSecretkey

====
